---- MODULE Spec2Model ----
(***************************************************************************)
(* Model of components::ComponentContext                                   *)
(* (core/src/components/component_context.cpp): implicit dependency        *)
(* discovery in FindComponent, DFS cycle detection, construction of        *)
(* components on factory fibers, load cancellation, and the three          *)
(* lifecycle phases driven by ProcessAllComponentLifetimeStageSwitchings.  *)
(*                                                                         *)
(* impl::ComponentInfo and the fiber runtime are not part of the source    *)
(* tree at hand; their behaviour (WaitAndGetComponent, WaitStage,          *)
(* SetComponent, joining TaskWithResult) is taken from the specification.  *)
(***************************************************************************)
EXTENDS Integers, Sequences, FiniteSets, TLC

(* ---------------- bounds ---------------- *)
\* number of FindComponent calls a single factory makes
MaxLookups == 2
\* number of CancelComponentsLoad calls the owner makes
MaxCancels == 2

(* ---------------- names ---------------- *)
\* loading_component_names handed to the constructor
Components == {"A", "B", "C"}
\* a name that is not declared
Undeclared == {"U"}
Names == Components \cup Undeclared
\* iteration order of the ordered containers keyed by name
NameOrder == <<"A", "B", "C", "U">>
OwnerFiber == "owner"
Fibers == Components \cup {OwnerFiber}
None == "None"

Stages == {"Null", "Created", "Running", "ReadyForClearing"}

VARIABLES
    component,                  \* ComponentInfo slot occupied
    stage,                      \* ComponentInfo lifetime stage
    it_depends_on,              \* ComponentInfo forward edge set
    depends_on_it,              \* ComponentInfo reverse edge set
    stage_switching_cancelled,  \* ComponentInfo cancellation flag
    on_loading_cancelled,       \* number of OnLoadingCancelled calls received
    task_to_component_map,      \* fiber -> name being constructed on it
    components_load_cancelled,  \* atomic flag of CancelComponentsLoad
    print_adding_components_stopped,
    reporter,                   \* position of the progress reporter fiber
    reporter_task,              \* print_adding_components_task_ is set
    pc,                         \* position of each factory fiber
    target,                     \* name the fiber's last FindComponent asked for
    error,                      \* exception that left AddComponent / FindComponent
    lookups,                    \* FindComponent calls made by the factory
    returned,                   \* names whose lookup returned to the factory
    constructed,                \* order of SetComponent calls
    cancels,                    \* CancelComponentsLoad calls made
    outside_error,              \* result of a FindComponent made by the owner
    dependency_chain,           \* chain CheckForDependencyCycle logged on the fiber
    cancelling,                 \* CancelComponentsLoad callers before test_and_set
    notifying,                  \* CancelComponentsLoad callers in the notify loop
    owner,                      \* position of the owner (Manager)
    phase,                      \* parameters of the running phase
    phase_cancelled,            \* params.is_component_lifetime_stage_switchings_cancelled
    tpc,                        \* position of each phase fiber
    todo,                       \* neighbours the phase fiber still has to visit
    waiting_on,                 \* neighbour a phase fiber is blocked on
    tresult,                    \* how each phase fiber ended
    valid,                      \* TaskWithResult::IsValid of each phase task
    join_idx,                   \* position of the driver's join loop
    driver,                     \* position of the phase driver
    driver_result,              \* how the last phase driver ended
    invoked,                    \* handlers invoked in the running phase, in order
    threw                       \* components whose handler threw in the running phase

infoVars == <<component, stage, it_depends_on, depends_on_it,
              stage_switching_cancelled, on_loading_cancelled>>
loadVars == <<task_to_component_map, components_load_cancelled, pc, target,
              error, lookups, returned, constructed, cancels, outside_error,
              dependency_chain, cancelling, notifying>>
reporterVars == <<print_adding_components_stopped, reporter, reporter_task>>
phaseVars == <<phase, phase_cancelled, tpc, todo, waiting_on, tresult, valid,
               join_idx, driver, driver_result, invoked, threw>>
vars == <<infoVars, loadVars, reporterVars, phaseVars, owner>>

(* ---------------- helpers ---------------- *)
RECURSIVE SortedFrom(_, _)
\* the elements of S in NameOrder, starting at position i
SortedFrom(S, i) ==
    IF i > Len(NameOrder) THEN <<>>
    ELSE IF NameOrder[i] \in S THEN <<NameOrder[i]>> \o SortedFrom(S, i + 1)
    ELSE SortedFrom(S, i + 1)

Sorted(S) == SortedFrom(S, 1)

\* components_.at(name) succeeds
Declared(n) == n \in Components

\* ForEachDependsOnIt of a component under the given reverse edge sets
DependsOnIt(doi, n) == doi[n]

(* ---------------- cycle detection ---------------- *)
RECURSIVE FindDependencyPathDfs(_, _, _, _), DfsForEach(_, _, _, _)
\* st = [found, handled, path]; returns the same record after visiting current
FindDependencyPathDfs(doi, current, tgt, st) ==
    LET st0 == [found |-> (current = tgt),
                handled |-> st.handled \cup {current},
                path |-> st.path]
        st1 == DfsForEach(doi, Sorted(DependsOnIt(doi, current)), tgt, st0)
    IN IF st1.found THEN [st1 EXCEPT !.path = Append(st1.path, current)]
       ELSE st1

DfsForEach(doi, names, tgt, st) ==
    IF names = <<>> THEN st
    ELSE LET n == Head(names)
             st1 == IF ~st.found /\ n \notin st.handled
                    THEN FindDependencyPathDfs(doi, n, tgt, st)
                    ELSE st
         IN DfsForEach(doi, Tail(names), tgt, st1)

\* the DFS following the forward edges instead of the reverse ones
RECURSIVE ForwardDfs(_, _, _, _)
ForwardDfs(ido, current, tgt, handled) ==
    \/ current = tgt
    \/ \E n \in (ido[current] \cap Components) \ (handled \cup {current}) :
           ForwardDfs(ido, n, tgt, handled \cup {current})

CheckForDependencyCycle_forward(doi, ido, from, to) ==
    [found |-> ForwardDfs(ido, from, to, {}), handled |-> {}, path |-> <<to>>]

\* the search testing only the dependents of from, never from itself
CheckForDependencyCycle_noself(doi, ido, from, to) ==
    LET r == DfsForEach(doi, Sorted(DependsOnIt(doi, from)), to,
                 [found |-> FALSE, handled |-> {from}, path |-> <<>>])
    IN IF r.found THEN [r EXCEPT !.path = Append(Append(r.path, from), to)]
       ELSE r

\* the search logging the path without the closing new_dependency_to
CheckForDependencyCycle_nopush(doi, ido, from, to) ==
    FindDependencyPathDfs(doi, from, to,
        [found |-> FALSE, handled |-> {}, path |-> <<>>])

\* result of the search CheckForDependencyCycle runs; found means it throws,
\* path is the dependency_chain it logs
CheckForDependencyCycle(doi, ido, from, to) ==
    LET r == FindDependencyPathDfs(doi, from, to,
                 [found |-> FALSE, handled |-> {}, path |-> <<>>])
    IN IF r.found THEN [r EXCEPT !.path = Append(r.path, to)] ELSE r

(* ---------------- AddDependency ---------------- *)
\* GetLoadingComponentName falling back to the first component when the
\* fiber has no entry
GetLoadingComponentName_default(f) ==
    IF task_to_component_map[f] = None THEN NameOrder[1]
    ELSE task_to_component_map[f]

\* GetLoadingComponentName: the entry of the current fiber, None if absent
GetLoadingComponentName(f) == task_to_component_map[f]

\* AddDependency installing the forward half-edge before the cycle check
AddDependency_addfirst(f, name) ==
    LET cur == GetLoadingComponentName(f)
        same == [err |-> None, ido |-> it_depends_on, doi |-> depends_on_it,
                 chain |-> <<>>]
    IN IF cur = None
       THEN [same EXCEPT !.err = "LookupOutsideConstruction"]
       ELSE IF name \in it_depends_on[cur] THEN same
       ELSE LET ido1 == [it_depends_on EXCEPT ![cur] = @ \cup {name}]
                r == CheckForDependencyCycle(depends_on_it, it_depends_on, cur, name)
            IN IF r.found
               THEN [err |-> "CircularDependency", ido |-> ido1,
                     doi |-> depends_on_it, chain |-> r.path]
               ELSE IF ~Declared(name)
               THEN [err |-> "UnknownComponent", ido |-> ido1,
                     doi |-> depends_on_it, chain |-> <<>>]
               ELSE [err |-> None, ido |-> ido1,
                     doi |-> [depends_on_it EXCEPT ![name] = @ \cup {cur}],
                     chain |-> <<>>]

\* AddDependency(name) on fiber f: the exception it leaves with (None if it
\* returns), the edge sets it leaves behind and the chain it logged
AddDependency(f, name) ==
    LET cur == GetLoadingComponentName(f)
        same == [err |-> None, ido |-> it_depends_on, doi |-> depends_on_it,
                 chain |-> <<>>]
    IN IF cur = None
       THEN [same EXCEPT !.err = "LookupOutsideConstruction"]
       ELSE IF name \in it_depends_on[cur] THEN same
       ELSE LET r == CheckForDependencyCycle(depends_on_it, it_depends_on, cur, name)
                ido1 == [it_depends_on EXCEPT ![cur] = @ \cup {name}]
            IN IF r.found
               THEN [same EXCEPT !.err = "CircularDependency", !.chain = r.path]
               ELSE IF ~Declared(name)
               THEN [err |-> "UnknownComponent", ido |-> ido1,
                     doi |-> depends_on_it, chain |-> <<>>]
               ELSE [err |-> None, ido |-> ido1,
                     doi |-> [depends_on_it EXCEPT ![name] = @ \cup {cur}],
                     chain |-> <<>>]

(* ---------------- TaskToComponentMapScope ---------------- *)
\* the constructor storing the new name over the entry it then complains about
TaskToComponentMapScope_overwrite(f, name) ==
    [taken |-> task_to_component_map[f] # None,
     map |-> [task_to_component_map EXCEPT ![f] = name]]

\* the constructor of the scope object: emplace keeps an entry the fiber
\* already has, and the constructor then throws (taken)
TaskToComponentMapScope(f, name) ==
    [taken |-> task_to_component_map[f] # None,
     map |-> IF task_to_component_map[f] # None THEN task_to_component_map
             ELSE [task_to_component_map EXCEPT ![f] = name]]

\* the destructor of the scope object erases the fiber's entry
ScopeExit_keep(f) == task_to_component_map

ScopeExit(f) == [task_to_component_map EXCEPT ![f] = None]

(* ---------------- initial state ---------------- *)
Init ==
    /\ component = [c \in Components |-> FALSE]
    /\ stage = [c \in Components |-> "Null"]
    /\ it_depends_on = [c \in Components |-> {}]
    /\ depends_on_it = [c \in Components |-> {}]
    /\ stage_switching_cancelled = [c \in Components |-> FALSE]
    /\ on_loading_cancelled = [c \in Components |-> 0]
    /\ task_to_component_map = [f \in Fibers |-> None]
    /\ components_load_cancelled = FALSE
    /\ print_adding_components_stopped = FALSE
    /\ reporter = "waiting"
    /\ reporter_task = TRUE
    /\ pc = [c \in Components |-> "idle"]
    /\ target = [c \in Components |-> None]
    /\ error = [c \in Components |-> None]
    /\ lookups = [c \in Components |-> 0]
    /\ returned = [c \in Components |-> {}]
    /\ constructed = <<>>
    /\ cancels = 0
    /\ outside_error = None
    /\ dependency_chain = [c \in Components |-> <<>>]
    /\ cancelling = 0
    /\ notifying = 0
    /\ owner = "loading"
    /\ phase = None
    /\ phase_cancelled = FALSE
    /\ tpc = [c \in Components |-> "none"]
    /\ todo = [c \in Components |-> {}]
    /\ waiting_on = [c \in Components |-> None]
    /\ tresult = [c \in Components |-> None]
    /\ valid = [c \in Components |-> FALSE]
    /\ join_idx = 0
    /\ driver = "idle"
    /\ driver_result = None
    /\ invoked = <<>>
    /\ threw = {}

(* ---------------- construction ---------------- *)
\* a factory fiber leaves AddComponent with exception e
Abort(c, e) ==
    /\ pc' = [pc EXCEPT ![c] = "failed"]
    /\ error' = [error EXCEPT ![c] = e]
    /\ task_to_component_map' = ScopeExit(c)

\* AddComponent(c, factory) up to the call of the factory
AddComponent(c) ==
    /\ owner = "loading"
    /\ pc[c] = "idle"
    /\ LET scope == TaskToComponentMapScope(c, c)
       IN IF scope.taken
          THEN /\ pc' = [pc EXCEPT ![c] = "failed"]
               /\ error' = [error EXCEPT ![c] = "NestedComponentConstruction"]
               /\ task_to_component_map' = scope.map
          ELSE IF component[c]
          THEN /\ pc' = [pc EXCEPT ![c] = "failed"]
               /\ error' = [error EXCEPT ![c] = "DuplicateComponent"]
               /\ UNCHANGED task_to_component_map
          ELSE /\ pc' = [pc EXCEPT ![c] = "factory"]
               /\ task_to_component_map' = scope.map
               /\ UNCHANGED error
    /\ UNCHANGED <<infoVars, reporterVars, phaseVars, owner,
                   components_load_cancelled, target, lookups, dependency_chain, returned,
                   constructed, cancels, cancelling, notifying, outside_error>>

\* the factory of c calls FindComponent(name): DoFindComponent up to the
\* return of AddDependency
FindComponent(c, name) ==
    /\ pc[c] = "factory"
    /\ lookups[c] < MaxLookups
    /\ lookups' = [lookups EXCEPT ![c] = @ + 1]
    /\ target' = [target EXCEPT ![c] = name]
    /\ LET r == AddDependency(c, name)
       IN /\ it_depends_on' = r.ido
          /\ depends_on_it' = r.doi
          /\ dependency_chain' = [dependency_chain EXCEPT ![c] = r.chain]
          /\ IF r.err # None
             THEN Abort(c, r.err)
             ELSE /\ pc' = [pc EXCEPT ![c] = "lookup"]
                  /\ UNCHANGED <<error, task_to_component_map>>
    /\ UNCHANGED <<component, stage, stage_switching_cancelled,
                   on_loading_cancelled, reporterVars, phaseVars, owner,
                   components_load_cancelled, returned, constructed, cancels, cancelling, notifying,
                   outside_error>>

\* DoFindComponent returns the component without waiting
ComponentLoaded_always(name) == TRUE

ComponentLoaded(name) == component[name]

\* DoFindComponent after AddDependency: components_.at(name), GetComponent
DoFindComponent(c) ==
    /\ pc[c] = "lookup"
    /\ IF ~Declared(target[c])
       THEN /\ Abort(c, "UnknownComponent")
            /\ UNCHANGED returned
       ELSE IF ComponentLoaded(target[c])
       THEN /\ pc' = [pc EXCEPT ![c] = "factory"]
            /\ returned' = [returned EXCEPT ![c] = @ \cup {target[c]}]
            /\ UNCHANGED <<error, task_to_component_map>>
       ELSE /\ pc' = [pc EXCEPT ![c] = "waiting"]
            /\ UNCHANGED <<error, task_to_component_map, returned>>
    /\ UNCHANGED <<infoVars, reporterVars, phaseVars, owner,
                   components_load_cancelled, target, lookups, dependency_chain, constructed,
                   cancels, cancelling, notifying, outside_error>>

\* ComponentInfo::WaitAndGetComponent wakes
WaitAndGetComponent(c) ==
    /\ pc[c] = "waiting"
    /\ stage_switching_cancelled[target[c]] \/ component[target[c]]
    /\ IF stage_switching_cancelled[target[c]]
       THEN /\ Abort(c, "StageSwitchingCancelled")
            /\ UNCHANGED returned
       ELSE /\ pc' = [pc EXCEPT ![c] = "factory"]
            /\ returned' = [returned EXCEPT ![c] = @ \cup {target[c]}]
            /\ UNCHANGED <<error, task_to_component_map>>
    /\ UNCHANGED <<infoVars, reporterVars, phaseVars, owner,
                   components_load_cancelled, target, lookups, dependency_chain, constructed,
                   cancels, cancelling, notifying, outside_error>>

\* the factory throws an exception of its own
FactoryThrows(c) ==
    /\ pc[c] = "factory"
    /\ Abort(c, "ComponentConstructionFailed")
    /\ UNCHANGED <<infoVars, reporterVars, phaseVars, owner,
                   components_load_cancelled, target, lookups, dependency_chain, returned,
                   constructed, cancels, cancelling, notifying, outside_error>>

\* the factory returns; AddComponent stores the instance (SetComponent)
FactoryReturns(c) ==
    /\ pc[c] = "factory"
    /\ component' = [component EXCEPT ![c] = TRUE]
    /\ stage' = [stage EXCEPT ![c] = "Created"]
    /\ constructed' = Append(constructed, c)
    /\ pc' = [pc EXCEPT ![c] = "done"]
    /\ task_to_component_map' = ScopeExit(c)
    /\ UNCHANGED <<it_depends_on, depends_on_it, stage_switching_cancelled,
                   on_loading_cancelled, reporterVars, phaseVars, owner,
                   components_load_cancelled, target, error, lookups, dependency_chain, returned,
                   cancels, cancelling, notifying, outside_error>>

\* the factory of c calls AddComponent(b, ...) on its own fiber: the scope
\* constructor finds the fiber's entry taken and throws
NestedAddComponent(c, b) ==
    /\ pc[c] = "factory"
    /\ LET scope == TaskToComponentMapScope(c, b)
       IN /\ scope.taken
          /\ task_to_component_map' = scope.map
    /\ pc' = [pc EXCEPT ![c] = "unwinding"]
    /\ error' = [error EXCEPT ![c] = "NestedComponentConstruction"]
    /\ UNCHANGED <<infoVars, reporterVars, phaseVars, owner,
                   components_load_cancelled, target, lookups,
                   dependency_chain, returned, constructed, cancels,
                   cancelling, notifying, outside_error>>

\* the factory catches the exception of the nested call and goes on
FactoryCatches(c) ==
    /\ pc[c] = "unwinding"
    /\ pc' = [pc EXCEPT ![c] = "factory"]
    /\ error' = [error EXCEPT ![c] = None]
    /\ UNCHANGED <<infoVars, reporterVars, phaseVars, owner,
                   task_to_component_map, components_load_cancelled, target,
                   lookups, dependency_chain, returned, constructed, cancels,
                   cancelling, notifying, outside_error>>

\* the exception of the nested call leaves the factory and AddComponent
FactoryRethrows(c) ==
    /\ pc[c] = "unwinding"
    /\ Abort(c, error[c])
    /\ UNCHANGED <<infoVars, reporterVars, phaseVars, owner,
                   components_load_cancelled, target, lookups,
                   dependency_chain, returned, constructed, cancels,
                   cancelling, notifying, outside_error>>

\* FindComponent called by the owner, outside any factory
FindComponentOutside(name) ==
    /\ owner = "loading"
    /\ outside_error = None
    /\ LET r == AddDependency(OwnerFiber, name)
       IN /\ it_depends_on' = r.ido
          /\ depends_on_it' = r.doi
          /\ outside_error' = IF r.err = None THEN "NoError" ELSE r.err
    /\ UNCHANGED <<component, stage, stage_switching_cancelled,
                   on_loading_cancelled, reporterVars, phaseVars, owner,
                   task_to_component_map, components_load_cancelled, pc, target,
                   error, lookups, dependency_chain, returned, constructed, cancels, cancelling, notifying>>

(* ---------------- cancellation ---------------- *)
\* CancelComponentLifetimeStageSwitching leaving the flags as they are
CancelComponentLifetimeStageSwitching_noop == stage_switching_cancelled

CancelComponentLifetimeStageSwitching == [c \in Components |-> TRUE]

PrepareComponentLifetimeStageSwitching == [c \in Components |-> FALSE]

\* a caller enters CancelComponentsLoad and broadcasts the cancel
CancelComponentsLoad ==
    /\ owner = "loading"
    /\ cancels < MaxCancels
    /\ cancels' = cancels + 1
    /\ cancelling' = cancelling + 1
    /\ stage_switching_cancelled' = CancelComponentLifetimeStageSwitching
    /\ UNCHANGED <<component, stage, it_depends_on, depends_on_it,
                   on_loading_cancelled, reporterVars, phaseVars, owner,
                   task_to_component_map, components_load_cancelled, pc,
                   target, error, lookups, dependency_chain, returned,
                   constructed, outside_error, notifying>>

\* test_and_set never reporting the flag as already set
TestAndSet_never(flag) == FALSE

\* the value components_load_cancelled_.test_and_set() returns
TestAndSet(flag) == flag

\* a caller reaches the test_and_set: it returns, or goes on to notify
ComponentsLoadCancelledTestAndSet ==
    /\ cancelling > 0
    /\ cancelling' = cancelling - 1
    /\ components_load_cancelled' = TRUE
    /\ notifying' = IF TestAndSet(components_load_cancelled) THEN notifying
                    ELSE notifying + 1
    /\ UNCHANGED <<infoVars, reporterVars, phaseVars, owner,
                   task_to_component_map, pc, target, error, lookups,
                   dependency_chain, returned, constructed, cancels,
                   outside_error>>

\* the loop calling OnLoadingCancelled of every component
OnLoadingCancelled ==
    /\ notifying > 0
    /\ notifying' = notifying - 1
    /\ on_loading_cancelled' =
           [c \in Components |-> on_loading_cancelled[c] + 1]
    /\ UNCHANGED <<component, stage, it_depends_on, depends_on_it,
                   stage_switching_cancelled, reporterVars, phaseVars, owner,
                   task_to_component_map, components_load_cancelled, pc,
                   target, error, lookups, dependency_chain, returned,
                   constructed, cancels, outside_error, cancelling>>

(* ---------------- progress reporter ---------------- *)
\* the timed wait of the reporter expires, or it is woken by the stop flag
ReporterWakes ==
    /\ reporter = "waiting"
    /\ reporter' = IF print_adding_components_stopped THEN "done" ELSE "printing"
    /\ UNCHANGED <<infoVars, loadVars, phaseVars, owner,
                   print_adding_components_stopped, reporter_task>>

PrintAddingComponents ==
    /\ reporter = "printing"
    /\ reporter' = "waiting"
    /\ UNCHANGED <<infoVars, loadVars, phaseVars, owner,
                   print_adding_components_stopped, reporter_task>>

(* ---------------- lifecycle phases ---------------- *)
\* components_ in iteration order: the order tasks are spawned and joined in
TaskOrder == Sorted(Components)

\* the stopping phase allowed to cancel
PhaseParams_cancelling(p) ==
    CASE p = "OnAllComponentsLoaded" ->
             [next_stage |-> "Running", dependency_type |-> "kNormal",
              allow_cancelling |-> TRUE]
      [] p = "OnAllComponentsAreStopping" ->
             [next_stage |-> "ReadyForClearing", dependency_type |-> "kInverted",
              allow_cancelling |-> TRUE]
      [] p = "ClearComponent" ->
             [next_stage |-> "Null", dependency_type |-> "kInverted",
              allow_cancelling |-> FALSE]

\* ComponentLifetimeStageSwitchingParams of the three phases
PhaseParams(p) ==
    CASE p = "OnAllComponentsLoaded" ->
             [next_stage |-> "Running", dependency_type |-> "kNormal",
              allow_cancelling |-> TRUE]
      [] p = "OnAllComponentsAreStopping" ->
             [next_stage |-> "ReadyForClearing", dependency_type |-> "kInverted",
              allow_cancelling |-> FALSE]
      [] p = "ClearComponent" ->
             [next_stage |-> "Null", dependency_type |-> "kInverted",
              allow_cancelling |-> FALSE]

\* the edge set iterated whatever the direction of the phase
WaitSet_forward(c, p) == it_depends_on[c]

\* the edge set ProcessSingleComponentLifetimeStageSwitching iterates
WaitSet(c, p) ==
    IF PhaseParams(p).dependency_type = "kNormal"
    THEN it_depends_on[c] ELSE depends_on_it[c]

\* no call of CancelComponentsLoad is still running
CancelCallsReturned == cancelling = 0 /\ notifying = 0

AllFactoriesEnded ==
    /\ \A c \in Components : pc[c] \in {"done", "failed"}
    /\ CancelCallsReturned

AllFactoriesSucceeded ==
    /\ \A c \in Components : pc[c] = "done"
    /\ CancelCallsReturned

\* the owner leaves construction: the factory fibers are gone, and what the
\* model remembered about their calls goes with them
FactoryFibersJoined ==
    /\ target' = [c \in Components |-> None]
    /\ error' = [c \in Components |-> None]
    /\ lookups' = [c \in Components |-> 0]
    /\ returned' = [c \in Components |-> {}]
    /\ constructed' = <<>>
    /\ cancels' = 0
    /\ outside_error' = None
    /\ dependency_chain' = [c \in Components |-> <<>>]
    /\ UNCHANGED <<task_to_component_map, components_load_cancelled, pc,
                   cancelling, notifying>>

\* StopPrintAddingComponentsTask up to the reset of the task handle
StopPrintAddingComponentsTask(from, to) ==
    /\ owner \in from
    /\ owner' = to
    /\ print_adding_components_stopped' = TRUE
    /\ IF owner = "loading" THEN FactoryFibersJoined ELSE UNCHANGED loadVars
    /\ UNCHANGED <<infoVars, phaseVars, reporter, reporter_task>>

\* OnAllComponentsLoaded is entered after every factory has returned
OnAllComponentsLoaded ==
    /\ AllFactoriesSucceeded
    /\ StopPrintAddingComponentsTask({"loading"}, "L_stop")

\* ClearComponents is entered once no factory is running
ClearComponents ==
    /\ AllFactoriesEnded
    /\ StopPrintAddingComponentsTask({"loading", "L_end", "S_end"}, "C_stop")

\* print_adding_components_task_.reset(): the task is joined and dropped
ResetPrintAddingComponentsTask ==
    /\ owner \in {"L_stop", "C_stop"}
    /\ reporter_task => reporter = "done"
    /\ reporter_task' = FALSE
    /\ owner' = IF owner = "L_stop" THEN "L_start" ELSE "C_start"
    /\ UNCHANGED <<infoVars, loadVars, phaseVars, reporter,
                   print_adding_components_stopped>>

\* phase the owner is about to run, and where the owner is while it runs
PhaseToStart ==
    CASE owner = "L_start" -> <<"OnAllComponentsLoaded", "L_phase">>
      [] owner = "L_end" -> <<"OnAllComponentsAreStopping", "S_phase">>
      [] owner = "C_start" -> <<"OnAllComponentsAreStopping", "C_stopping">>
      [] owner = "C_clear" -> <<"ClearComponent", "C_clearing">>

\* ProcessAllComponentLifetimeStageSwitchings up to the join loop:
\* PrepareComponentLifetimeStageSwitching and one task per component
ProcessAllComponentLifetimeStageSwitchings ==
    /\ owner \in {"L_start", "L_end", "C_start", "C_clear"}
    /\ driver = "idle"
    /\ phase' = PhaseToStart[1]
    /\ owner' = PhaseToStart[2]
    /\ stage_switching_cancelled' = PrepareComponentLifetimeStageSwitching
    /\ phase_cancelled' = FALSE
    /\ tpc' = [c \in Components |-> "wait"]
    /\ todo' = [c \in Components |-> WaitSet(c, PhaseToStart[1])]
    /\ waiting_on' = [c \in Components |-> None]
    /\ tresult' = [c \in Components |-> None]
    /\ valid' = [c \in Components |-> TRUE]
    /\ join_idx' = 1
    /\ driver' = "join"
    /\ driver_result' = None
    /\ invoked' = <<>>
    /\ threw' = {}
    /\ UNCHANGED <<component, stage, it_depends_on, depends_on_it,
                   on_loading_cancelled, loadVars, reporterVars>>

phaseFiberUnchanged ==
    UNCHANGED <<loadVars, reporterVars, owner, phase, valid, join_idx, driver,
                driver_result, it_depends_on, depends_on_it,
                on_loading_cancelled>>

\* wait_cb never finding a reason to wait
StageReached_always(n, p) == TRUE

\* other_component_info.GetStage() == params.next_stage
StageReached(n, p) == stage[n] = PhaseParams(p).next_stage

\* wait_cb for the next neighbour of c
WaitCb(c) ==
    /\ tpc[c] = "wait"
    /\ todo[c] # {}
    /\ LET n == Head(Sorted(todo[c]))
       IN IF ~Declared(n)
          THEN /\ tpc' = [tpc EXCEPT ![c] = "caught"]
               /\ UNCHANGED <<todo, waiting_on>>
          ELSE IF ~StageReached(n, phase)
          THEN /\ tpc' = [tpc EXCEPT ![c] = "blocked"]
               /\ waiting_on' = [waiting_on EXCEPT ![c] = n]
               /\ UNCHANGED todo
          ELSE /\ todo' = [todo EXCEPT ![c] = @ \ {n}]
               /\ UNCHANGED <<tpc, waiting_on>>
    /\ UNCHANGED <<component, stage, stage_switching_cancelled, phase_cancelled,
                   tresult, invoked, threw>>
    /\ phaseFiberUnchanged

\* ComponentInfo::WaitStage on the neighbour wakes
WaitStage(c) ==
    /\ tpc[c] = "blocked"
    /\ LET n == waiting_on[c]
       IN /\ \/ stage_switching_cancelled[n]
             \/ stage[n] = PhaseParams(phase).next_stage
          /\ IF stage_switching_cancelled[n]
             THEN /\ tpc' = [tpc EXCEPT ![c] = "cancelled"]
                  /\ UNCHANGED todo
             ELSE /\ tpc' = [tpc EXCEPT ![c] = "wait"]
                  /\ todo' = [todo EXCEPT ![c] = @ \ {n}]
    /\ waiting_on' = [waiting_on EXCEPT ![c] = None]
    /\ UNCHANGED <<component, stage, stage_switching_cancelled, phase_cancelled,
                   tresult, invoked, threw>>
    /\ phaseFiberUnchanged

\* the stage switch handler of c is invoked; it returns or throws
StageSwitchHandler(c, throws) ==
    /\ tpc[c] = "wait"
    /\ todo[c] = {}
    /\ invoked' = Append(invoked, c)
    /\ threw' = IF throws THEN threw \cup {c} ELSE threw
    /\ component' = IF phase = "ClearComponent"
                    THEN [component EXCEPT ![c] = FALSE] ELSE component
    /\ tpc' = [tpc EXCEPT ![c] =
                 IF throws /\ PhaseParams(phase).allow_cancelling
                 THEN "caught" ELSE "set_stage"]
    /\ UNCHANGED <<stage, stage_switching_cancelled, phase_cancelled, tresult,
                   todo, waiting_on>>
    /\ phaseFiberUnchanged

\* catch (const std::exception&) with allow_cancelling: the broadcast
CatchException(c) ==
    /\ tpc[c] = "caught"
    /\ tpc' = [tpc EXCEPT ![c] = "rethrow"]
    /\ phase_cancelled' = TRUE
    /\ stage_switching_cancelled' =
           IF ~phase_cancelled THEN CancelComponentLifetimeStageSwitching
           ELSE [stage_switching_cancelled EXCEPT ![c] = TRUE]
    /\ UNCHANGED <<component, stage, tresult, todo, waiting_on, invoked, threw>>
    /\ phaseFiberUnchanged

\* the catch of StageSwitchingCancelledException rethrowing without SetStage
StageLeft_notoncancel(c, at) ==
    IF at = "cancelled" THEN stage[c] ELSE PhaseParams(phase).next_stage

\* the final SetStage placed inside the try block: skipped when the handler
\* threw in a phase that does not allow cancelling
StageLeft_intry(c, at) ==
    IF at = "set_stage" /\ c \in threw THEN stage[c]
    ELSE PhaseParams(phase).next_stage

\* the stage a phase fiber leaves its component in: SetStage(next_stage) in
\* both catch blocks and after the try block
StageLeft(c, at) == PhaseParams(phase).next_stage

\* the fiber that caught the handler's exception ending as if cancelled
TaskResult_masked(at) ==
    CASE at = "set_stage" -> "ok"
      [] at = "rethrow" -> "StageSwitchingCancelled"
      [] at = "cancelled" -> "StageSwitchingCancelled"

\* what Get() on the task of the fiber yields: both catch blocks rethrow
TaskResult(at) ==
    CASE at = "set_stage" -> "ok"
      [] at = "rethrow" -> "error"
      [] at = "cancelled" -> "StageSwitchingCancelled"

\* SetStage(next_stage) that ends the fiber: after the handler, after the
\* broadcast, or in catch (const StageSwitchingCancelledException&)
SetStage(c) ==
    /\ tpc[c] \in {"set_stage", "rethrow", "cancelled"}
    /\ stage' = [stage EXCEPT ![c] = StageLeft(c, tpc[c])]
    /\ tresult' = [tresult EXCEPT ![c] = TaskResult(tpc[c])]
    /\ tpc' = [tpc EXCEPT ![c] = "finished"]
    /\ UNCHANGED <<component, stage_switching_cancelled, phase_cancelled, todo,
                   waiting_on, invoked, threw>>
    /\ phaseFiberUnchanged

\* where the owner is once the driver of the running phase has ended
AfterPhase(raised) ==
    CASE owner = "L_phase" -> "L_end"
      [] owner = "S_phase" -> "S_end"
      [] owner = "C_stopping" -> IF raised THEN "C_end" ELSE "C_clear"
      [] owner = "C_clearing" -> "C_end"

\* the inner catch of the join loop swallowing every exception
Swallowed_all(r) == TRUE

\* the inner catch of the join loop: only StageSwitchingCancelledException
Swallowed(r) == r # "error"

\* task_item.second.Get() of the join loop
DriverGet ==
    /\ driver = "join"
    /\ LET t == TaskOrder[join_idx]
       IN /\ tpc[t] = "finished"
          /\ valid' = [valid EXCEPT ![t] = FALSE]
          /\ IF Swallowed(tresult[t])
             THEN /\ join_idx' = join_idx + 1
                  /\ driver' = IF join_idx = Len(TaskOrder) THEN "check"
                               ELSE "join"
             ELSE /\ driver' = "catch"
                  /\ UNCHANGED join_idx
    /\ UNCHANGED <<infoVars, loadVars, reporterVars, owner, phase,
                   phase_cancelled, tpc, todo, waiting_on, tresult,
                   driver_result, invoked, threw>>

\* catch (const std::exception&) of the driver: the broadcast
DriverCatch ==
    /\ driver = "catch"
    /\ driver' = "wait_rest"
    /\ IF PhaseParams(phase).allow_cancelling /\ ~phase_cancelled
       THEN /\ phase_cancelled' = TRUE
            /\ stage_switching_cancelled' = CancelComponentLifetimeStageSwitching
       ELSE UNCHANGED <<phase_cancelled, stage_switching_cancelled>>
    /\ UNCHANGED <<component, stage, it_depends_on, depends_on_it,
                   on_loading_cancelled, loadVars, reporterVars, owner, phase,
                   tpc, todo, waiting_on, tresult, valid, join_idx,
                   driver_result, invoked, threw>>

\* the driver rethrows without waiting for the tasks that are still valid
RemainingTasksFinished_nowait == TRUE

\* every task that is still valid has been waited for
RemainingTasksFinished ==
    \A t \in Components : valid[t] => tpc[t] = "finished"

\* Wait() on the remaining tasks, then throw
DriverRethrow ==
    /\ driver = "wait_rest"
    /\ RemainingTasksFinished
    /\ driver' = "idle"
    /\ driver_result' = "raised"
    /\ owner' = AfterPhase(TRUE)
    /\ UNCHANGED <<infoVars, loadVars, reporterVars, phase, phase_cancelled,
                   tpc, todo, waiting_on, tresult, valid, join_idx, invoked, threw>>

\* the check after the join loop
DriverCheck ==
    /\ driver = "check"
    /\ driver' = "idle"
    /\ driver_result' = IF phase_cancelled THEN "ProtocolViolation"
                        ELSE "returned"
    /\ owner' = AfterPhase(phase_cancelled)
    /\ UNCHANGED <<infoVars, loadVars, reporterVars, phase, phase_cancelled,
                   tpc, todo, waiting_on, tresult, valid, join_idx, invoked, threw>>

LoadNext ==
    \/ \E c \in Components : AddComponent(c)
    \/ \E c \in Components, n \in Names : FindComponent(c, n)
    \/ \E c \in Components : DoFindComponent(c)
    \/ \E c \in Components : WaitAndGetComponent(c)
    \/ \E c \in Components : FactoryThrows(c)
    \/ \E c \in Components : FactoryReturns(c)
    \/ \E c, b \in Components : NestedAddComponent(c, b)
    \/ \E c \in Components : FactoryCatches(c)
    \/ \E c \in Components : FactoryRethrows(c)
    \/ \E n \in Names : FindComponentOutside(n)
    \/ CancelComponentsLoad
    \/ ComponentsLoadCancelledTestAndSet
    \/ OnLoadingCancelled
    \/ ReporterWakes
    \/ PrintAddingComponents

PhaseNext ==
    \/ OnAllComponentsLoaded
    \/ ClearComponents
    \/ ResetPrintAddingComponentsTask
    \/ ProcessAllComponentLifetimeStageSwitchings
    \/ \E c \in Components : WaitCb(c)
    \/ \E c \in Components : WaitStage(c)
    \/ \E c \in Components, throws \in BOOLEAN : StageSwitchHandler(c, throws)
    \/ \E c \in Components : CatchException(c)
    \/ \E c \in Components : SetStage(c)
    \/ DriverGet
    \/ DriverCatch
    \/ DriverRethrow
    \/ DriverCheck

Next == LoadNext \/ PhaseNext

Spec == Init /\ [][Next]_vars

\* what a factory does next is up to the factory, but it does something
FactoryStep(c) ==
    \/ FactoryThrows(c)
    \/ FactoryReturns(c)
    \/ \E n \in Names : FindComponent(c, n)

\* the owner answers a failed AddComponent by cancelling the load
CancelFailedLoad ==
    /\ \E c \in Components : pc[c] = "failed"
    /\ cancels = 0
    /\ CancelComponentsLoad

\* a step of a factory fiber
FiberStep(c) ==
    \/ AddComponent(c)
    \/ DoFindComponent(c)
    \/ WaitAndGetComponent(c)
    \/ FactoryStep(c)

\* construction: the factory fibers and the owner's cancel
LiveNext ==
    \/ \E c \in Components : FiberStep(c)
    \/ CancelComponentsLoad

\* a step of a fiber that can run, or the owner's answer to a failure
Progress ==
    \/ \E c \in Components : FiberStep(c)
    \/ CancelFailedLoad

\* construction alone, with the scheduler running a runnable fiber as long as
\* there is one; every fiber makes a bounded number of steps, so none of them
\* is passed over forever
LiveSpec == Init /\ [][LiveNext]_vars /\ WF_vars(Progress)

\* a step of a phase fiber
PhaseFiberStep(c) ==
    \/ WaitCb(c)
    \/ WaitStage(c)
    \/ \E throws \in BOOLEAN : StageSwitchHandler(c, throws)
    \/ CatchException(c)
    \/ SetStage(c)

\* a step of the phase driver after it has spawned the fibers
DriverStep ==
    \/ DriverGet
    \/ DriverCatch
    \/ DriverRethrow
    \/ DriverCheck

\* a step of a task of the running phase
PhaseStep ==
    \/ \E c \in Components : PhaseFiberStep(c)
    \/ DriverStep

\* construction by the factory fibers alone, then the phases
PhaseLiveNext ==
    \/ \E c \in Components : FiberStep(c)
    \/ ReporterWakes
    \/ PrintAddingComponents
    \/ PhaseNext

\* the phases, with the scheduler running a runnable task of the phase as
\* long as there is one; the owner is free to start a phase or not
PhaseLiveSpec == Init /\ [][PhaseLiveNext]_vars /\ WF_vars(PhaseStep)

(* ---------------- properties ---------------- *)
\* names the forward edges of n lead to
Successors(ido, n) == IF n \in Components THEN ido[n] ELSE {}

RECURSIVE Closure(_, _)
\* every name reachable from the set S by forward edges, S included
Closure(ido, S) ==
    LET S1 == S \cup UNION {Successors(ido, n) : n \in S}
    IN IF S1 = S THEN S ELSE Closure(ido, S1)

\* names reachable from n by one or more forward edges
ReachableFrom(ido, n) == Closure(ido, Successors(ido, n))

\* position of a name in a sequence without repetitions, 0 if absent
Pos(seq, n) ==
    IF \E i \in 1..Len(seq) : seq[i] = n
    THEN CHOOSE i \in 1..Len(seq) : seq[i] = n
    ELSE 0

\* the factory of c makes a FindComponent(n) call in this step
CallsFindComponent(c, n) ==
    /\ pc[c] = "factory"
    /\ lookups'[c] = lookups[c] + 1
    /\ target'[c] = n

\* C1: in every reachable state the graph of the it_depends_on edges has no
\* cycle: no component is reachable from itself, self-edges included.
C1_DependencyGraphAcyclic ==
    \A c \in Components : c \notin ReachableFrom(it_depends_on, c)

\* a factory waits for a component whose own factory asked for it in turn
\* and was refused
C1_Witness ==
    \E a, b \in Components :
        /\ a # b
        /\ b \in it_depends_on[a]
        /\ pc[a] = "waiting" /\ target[a] = b
        /\ target[b] = a /\ error[b] = "CircularDependency"

\* C6: a FindComponent(name) call whose new edge from -> name would close a
\* cycle fails with CircularDependency and leaves all edge sets as they were.
C6_CycleRejectedEdgesUnchanged ==
    [][\A c \in Components, n \in Names :
          (/\ CallsFindComponent(c, n)
           /\ n \notin it_depends_on[c]
           /\ (n = c \/ c \in ReachableFrom(it_depends_on, n)))
          => (/\ error'[c] = "CircularDependency"
              /\ it_depends_on' = it_depends_on
              /\ depends_on_it' = depends_on_it)]_vars

\* a lookup was refused for a cycle through two other components
C6_Witness ==
    \E c \in Components :
        /\ error[c] = "CircularDependency"
        /\ target[c] # c
        /\ target[c] \notin it_depends_on[c]
        /\ c \in ReachableFrom(it_depends_on, target[c])
        /\ c \notin it_depends_on[target[c]]

\* C7: for all names A and B, B is in A.it_depends_on if and only if B is a
\* declared component and A is in B.depends_on_it, also after failed lookups.
C7_HalfEdgesInLockstep ==
    \A a \in Components, b \in Names :
        (b \in it_depends_on[a]) <=> (b \in Components /\ a \in depends_on_it[b])

\* C3: a lookup returns to the factory only when the slot of the name is
\* occupied, so for a lookup of B that returned inside A's factory, B was
\* stored before A is stored.
C3_LookupReturnsConstructed ==
    \A a \in Components : \A b \in returned[a] :
        /\ component[b]
        /\ Pos(constructed, b) > 0
        /\ Pos(constructed, a) > 0 => Pos(constructed, b) < Pos(constructed, a)

\* the linear chain A -> B -> C constructed in the order C, B, A
C3_Witness ==
    /\ "B" \in returned["A"]
    /\ "C" \in returned["B"]
    /\ constructed = <<"C", "B", "A">>

\* C2: within a phase the stage switch handler of a component is invoked only
\* when every component of its wait set (it_depends_on for the Normal
\* direction, depends_on_it for Inverted) has the stage the phase leads to,
\* also when the phase is cancelled.
C2_HandlerAfterWaitSet ==
    [][\A c \in Components :
          invoked' = Append(invoked, c) =>
              CASE phase = "OnAllComponentsLoaded" ->
                       \A n \in it_depends_on[c] \cap Components :
                           stage[n] = "Running"
                [] phase = "OnAllComponentsAreStopping" ->
                       \A n \in depends_on_it[c] : stage[n] = "ReadyForClearing"
                [] phase = "ClearComponent" ->
                       \A n \in depends_on_it[c] : stage[n] = "Null"
                [] OTHER -> FALSE]_vars

\* in a cancelled OnAllComponentsLoaded a handler with dependencies was
\* invoked after the handler that failed
C2_Witness ==
    /\ phase = "OnAllComponentsLoaded"
    /\ phase_cancelled
    /\ \E i, j \in 1..Len(invoked) :
           /\ i < j
           /\ tresult[invoked[i]] = "error"
           /\ it_depends_on[invoked[j]] # {}

\* C4 as claimed: for every edge A -> B, in every run of OnAllComponentsLoaded
\* the stage of B is Running no later than the stage of A.
C4_DependencyRunningFirst ==
    phase = "OnAllComponentsLoaded" =>
        \A a \in Components : \A b \in it_depends_on[a] \cap Components :
            stage[a] = "Running" => stage[b] = "Running"

\* C4 amended: for every edge A -> B, B is Running when the handler of A is
\* invoked, and the stage of A is Running before that of B only when the
\* fiber of A ended with StageSwitchingCancelled without invoking its handler.
C4_DependencyRunningFirstUnlessCancelled ==
    phase = "OnAllComponentsLoaded" =>
        \A a \in Components : \A b \in it_depends_on[a] \cap Components :
            /\ Pos(invoked, a) > 0 => stage[b] = "Running"
            /\ (stage[a] = "Running" /\ stage[b] # "Running") =>
                   (tresult[a] = "StageSwitchingCancelled" /\ Pos(invoked, a) = 0)

\* a cancelled dependent is Running while its dependency is not yet
C4_Witness ==
    /\ phase = "OnAllComponentsLoaded"
    /\ \E a \in Components : \E b \in it_depends_on[a] \cap Components :
           /\ stage[a] = "Running"
           /\ stage[b] # "Running"
           /\ tresult[a] = "StageSwitchingCancelled"

\* C5: for every edge A -> B the dependent A is cleared (handler run, stage
\* Null) before the dependency B is cleared, A is ReadyForClearing before B in
\* the stopping phase, and the chain A -> B -> C is destroyed in the order
\* A, B, C.
C5_DependentsClearedFirst ==
    /\ phase = "ClearComponent" =>
           /\ \A a \in Components : \A b \in it_depends_on[a] \cap Components :
                  /\ stage[b] = "Null" => stage[a] = "Null"
                  /\ Pos(invoked, b) > 0 =>
                         /\ stage[a] = "Null"
                         /\ Pos(invoked, a) > 0
                         /\ Pos(invoked, a) < Pos(invoked, b)
           /\ ("B" \in it_depends_on["A"] /\ "C" \in it_depends_on["B"]
                   /\ Len(invoked) = 3) => invoked = <<"A", "B", "C">>
    /\ phase = "OnAllComponentsAreStopping" =>
           \A a \in Components : \A b \in it_depends_on[a] \cap Components :
               stage[b] = "ReadyForClearing" => stage[a] = "ReadyForClearing"

\* the chain A -> B -> C after ClearComponents
C5_Witness ==
    /\ owner = "C_end"
    /\ "B" \in it_depends_on["A"]
    /\ "C" \in it_depends_on["B"]
    /\ invoked = <<"A", "B", "C">>
    /\ \A c \in Components : stage[c] = "Null"

\* C8: once CancelComponentsLoad has been called, every factory suspended in
\* FindComponent wakes and fails with StageSwitchingCancelled.
C8_CancelWakesWaiters ==
    \A c \in Components :
        (pc[c] = "waiting" /\ cancels > 0)
            ~> (pc[c] = "failed" /\ error[c] = "StageSwitchingCancelled")

\* two factories waiting for components that were never constructed were
\* woken by the cancel
C8_Witness ==
    /\ cancels > 0
    /\ \E a, b \in Components :
           /\ a # b
           /\ error[a] = "StageSwitchingCancelled"
           /\ error[b] = "StageSwitchingCancelled"
           /\ ~component[target[a]]
           /\ ~component[target[b]]

C10_FibersJoined ==
    /\ (driver = "idle" /\ phase # None) =>
           \A c \in Components : tpc[c] = "finished"
    /\ owner = "C_end" =>
           /\ reporter = "done"
           /\ ~reporter_task
           /\ \A c \in Components : tpc[c] = "finished"

\* a driver raised after waiting for tasks it had not joined yet
C10_Witness ==
    /\ driver = "idle"
    /\ driver_result = "raised"
    /\ \E c \in Components : valid[c]

\* the stage each phase leads to, by the name of the phase
TargetStage ==
    CASE phase = "OnAllComponentsLoaded" -> "Running"
      [] phase = "OnAllComponentsAreStopping" -> "ReadyForClearing"
      [] phase = "ClearComponent" -> "Null"
      [] OTHER -> "Null"

\* C11: when ClearComponents returns every component is at Null, whether or
\* not a handler threw; when any phase driver returns or raises, every
\* component is at the stage the phase leads to.
C11_StagesAtTargetOnExit ==
    /\ (driver = "idle" /\ phase # None) =>
           \A c \in Components : stage[c] = TargetStage
    /\ owner = "C_end" => \A c \in Components : stage[c] = "Null"

\* ClearComponents has returned although a ClearComponent handler threw
C11_Witness ==
    /\ owner = "C_end"
    /\ threw # {}
    /\ \A c \in Components : stage[c] = "Null"

\* C12: if a handler throws during OnAllComponentsLoaded, the cancel flag is
\* set on every component, the driver joins every fiber and ends by
\* re-raising the handler's exception: it neither returns normally nor ends
\* with StageSwitchingCancelled or the post-condition error.
C12_LoadedFailureReraised ==
    (phase = "OnAllComponentsLoaded" /\ threw # {}) =>
        /\ (\E c \in Components : tpc[c] = "rethrow" \/ tresult[c] = "error")
               => \A d \in Components : stage_switching_cancelled[d]
        /\ driver # "check"
        /\ driver = "idle" =>
               /\ driver_result = "raised"
               /\ \A c \in Components : tpc[c] = "finished"
               /\ \A c \in Components : stage_switching_cancelled[c]

\* OnAllComponentsLoaded raised after one handler threw and another fiber
\* was cancelled
C12_Witness ==
    /\ phase = "OnAllComponentsLoaded"
    /\ driver = "idle"
    /\ driver_result = "raised"
    /\ threw # {}
    /\ \E c \in Components : tresult[c] = "StageSwitchingCancelled"

\* C13: in the phases that do not allow cancelling, a handler that throws
\* does not cancel the phase: no cancel flag is set, the handler of every
\* component is still invoked and the driver returns without raising.
C13_TeardownFailureNotCancelling ==
    (phase \in {"OnAllComponentsAreStopping", "ClearComponent"} /\ threw # {}) =>
        /\ \A c \in Components : ~stage_switching_cancelled[c]
        /\ ~phase_cancelled
        /\ driver = "idle" =>
               /\ driver_result = "returned"
               /\ \A c \in Components : Pos(invoked, c) > 0

\* the stopping phase returned although the first handler invoked threw
C13_Witness ==
    /\ phase = "OnAllComponentsAreStopping"
    /\ driver = "idle"
    /\ Len(invoked) = 3
    /\ invoked[1] \in threw
    /\ depends_on_it[invoked[3]] # {}

\* C20: the post-condition error of the driver is unreachable: whenever the
\* phase flag is set, the join loop meets the exception of a handler and the
\* driver leaves by re-raising it.
C20_ProtocolViolationUnreachable ==
    /\ driver_result # "ProtocolViolation"
    /\ driver = "check" => ~phase_cancelled
    /\ (phase_cancelled /\ driver = "idle") => driver_result = "raised"

\* a cancelled phase ended by re-raising
C20_Witness ==
    /\ phase_cancelled
    /\ driver = "idle"
    /\ driver_result = "raised"

\* C14: a FindComponent made by a fiber that has no entry in the
\* task-to-component map fails with LookupOutsideConstruction and leaves
\* every it_depends_on and depends_on_it set as it was.
C14_OutsideLookupRejected ==
    [][(outside_error = None /\ outside_error' # None) =>
           /\ outside_error' = "LookupOutsideConstruction"
           /\ it_depends_on' = it_depends_on
           /\ depends_on_it' = depends_on_it]_vars

\* the owner's lookup failed while a factory was running and edges existed
C14_Witness ==
    /\ outside_error = "LookupOutsideConstruction"
    /\ task_to_component_map[OwnerFiber] = None
    /\ \E c \in Components : pc[c] = "factory"
    /\ \E c \in Components : it_depends_on[c] # {}

\* C15: AddComponent called by a factory on its own fiber fails with
\* NestedComponentConstruction, starts no factory and stores no component,
\* and leaves the fiber's entry alone: a fiber inside AddComponent maps to
\* the component it was started for, and a fiber outside it has no entry.
C15_NestedConstructionRejected ==
    /\ [](\A c \in Components :
             /\ pc[c] \in {"factory", "lookup", "waiting", "unwinding"} =>
                    task_to_component_map[c] = c
             /\ pc[c] \in {"idle", "done", "failed"} =>
                    task_to_component_map[c] = None)
    /\ [][\A c \in Components :
             (pc[c] = "factory" /\ pc'[c] = "unwinding") =>
                 /\ error'[c] = "NestedComponentConstruction"
                 /\ task_to_component_map' = task_to_component_map
                 /\ component' = component
                 /\ constructed' = constructed
                 /\ \A b \in Components \ {c} : pc'[b] = pc[b]]_vars

\* one factory is unwinding from a nested AddComponent with its entry still
\* in place, another has left AddComponent with that exception and has none
C15_Witness ==
    \E a, b \in Components :
        /\ pc[a] = "unwinding"
        /\ error[a] = "NestedComponentConstruction"
        /\ task_to_component_map[a] = a
        /\ pc[b] = "failed"
        /\ error[b] = "NestedComponentConstruction"
        /\ task_to_component_map[b] = None

\* C16: however many calls of CancelComponentsLoad were made, one after the
\* other or overlapping, once they have all returned the container is in the
\* state one call leaves, and no component ever receives OnLoadingCancelled
\* more than once.
C16_CancelIdempotent ==
    /\ \A c \in Components : on_loading_cancelled[c] <= 1
    /\ (owner = "loading" /\ cancels >= 1 /\ cancelling = 0 /\ notifying = 0) =>
           /\ components_load_cancelled
           /\ \A c \in Components :
                  /\ stage_switching_cancelled[c]
                  /\ on_loading_cancelled[c] = 1

\* two calls have returned
C16_Witness ==
    /\ owner = "loading"
    /\ cancels >= 2
    /\ cancelling = 0
    /\ notifying = 0
    /\ \A c \in Components : on_loading_cancelled[c] = 1

\* C18: when the cycle check runs for a new edge c -> n, the lookup fails
\* with CircularDependency exactly when n is c or n is reachable from c over
\* the depends_on_it sets, which is exactly when the edge would close a cycle
\* of it_depends_on edges.
C18_CycleCheckExact ==
    [][\A c \in Components, n \in Names :
           (CallsFindComponent(c, n) /\ n \notin it_depends_on[c]) =>
               /\ (error'[c] = "CircularDependency") <=>
                      (n = c \/ n \in ReachableFrom(depends_on_it, c))
               /\ (error'[c] = "CircularDependency") <=>
                      (n = c \/ c \in ReachableFrom(it_depends_on, n))]_vars

\* a lookup that would close a cycle through all three components was
\* rejected
C18_Witness ==
    \E a, b, c \in Components :
        /\ b \in it_depends_on[a]
        /\ c \in it_depends_on[b]
        /\ error[c] = "CircularDependency"
        /\ target[c] = a
        /\ Len(dependency_chain[c]) = 4

\* C19 as stated: with A -> B installed, FindComponent("A") from the factory
\* of B fails with CircularDependency, the logged chain is B -> A -> B and
\* the edge B -> A is not installed.
C19_CyclePathFromRequester ==
    [][(CallsFindComponent("B", "A") /\ "B" \in it_depends_on["A"]) =>
           /\ error'["B"] = "CircularDependency"
           /\ dependency_chain'["B"] = <<"B", "A", "B">>
           /\ "A" \notin it_depends_on'["B"]
           /\ "B" \notin depends_on_it'["A"]]_vars

\* C19 amended: the logged chain starts and ends with the requested name,
\* A -> B -> A.
C19_CyclePathFromRequested ==
    [][(CallsFindComponent("B", "A") /\ "B" \in it_depends_on["A"]) =>
           /\ error'["B"] = "CircularDependency"
           /\ dependency_chain'["B"] = <<"A", "B", "A">>
           /\ "A" \notin it_depends_on'["B"]
           /\ "B" \notin depends_on_it'["A"]]_vars

\* the factory of B was aborted by the check, with A -> B in place
C19_Witness ==
    /\ "B" \in it_depends_on["A"]
    /\ pc["B"] = "failed"
    /\ error["B"] = "CircularDependency"
    /\ target["B"] = "A"
    /\ dependency_chain["B"] = <<"A", "B", "A">>
    /\ "A" \notin it_depends_on["B"]

\* C17: a phase driver that has spawned its fibers eventually returns or
\* raises, whatever the dependency graph, the phase and the handlers that
\* throw: no fiber of the phase stays in WaitStage for ever.
C17_PhaseTerminates ==
    (driver # "idle") ~>
        (driver = "idle" /\ \A c \in Components : tpc[c] = "finished")

\* OnAllComponentsLoaded over the chain A -> B -> C ended by raising, with a
\* fiber that had to be woken by the cancellation
C17_Witness ==
    /\ phase = "OnAllComponentsLoaded"
    /\ driver = "idle"
    /\ driver_result = "raised"
    /\ "B" \in it_depends_on["A"]
    /\ "C" \in it_depends_on["B"]
    /\ \E c \in Components : tresult[c] = "StageSwitchingCancelled"
    /\ \A c \in Components : tpc[c] = "finished"

\* the handler of c has been invoked in the running phase
Invoked(c) == \E i \in 1..Len(invoked) : invoked[i] = c

\* C21 as stated: in OnAllComponentsLoaded, once the handler of B has thrown
\* or B was cancelled before its handler ran, the handler of no A with an
\* edge A -> B is invoked.
C21_DependentsOfFailedNeverInvoked ==
    phase = "OnAllComponentsLoaded" =>
        \A a \in Components : \A b \in it_depends_on[a] \cap Components :
            (b \in threw \/ tresult[b] = "StageSwitchingCancelled") =>
                ~Invoked(a)

\* C21 amended: in OnAllComponentsLoaded a fiber that is in WaitStage on a
\* component whose handler threw leaves the wait cancelled, and a cancelled
\* fiber never invokes its handler; only a fiber that reaches the failed
\* component after its stage has been set goes on to its handler.
C21_WaitersOfFailedNeverInvoked ==
    /\ [](\A a \in Components :
             (tpc[a] = "cancelled" \/ tresult[a] = "StageSwitchingCancelled")
                 => ~Invoked(a))
    /\ [][\A a \in Components :
             (/\ phase = "OnAllComponentsLoaded"
              /\ tpc[a] = "blocked"
              /\ waiting_on[a] \in threw
              /\ tpc'[a] # "blocked") => tpc'[a] = "cancelled"]_vars

\* the handler of B threw while the fiber of A, whose only dependency is B,
\* was waiting for it: A ended cancelled and its handler was not invoked
C21_Witness ==
    /\ phase = "OnAllComponentsLoaded"
    /\ "B" \in threw
    /\ it_depends_on["A"] = {"B"}
    /\ tresult["A"] = "StageSwitchingCancelled"
    /\ ~Invoked("A")
    /\ driver = "idle"

====
